---- MODULE Spec2Model ----
(***************************************************************************)
(* Model of the eLandings landing report sync engine                       *)
(* (src/src/client/sync_landing_reports.py, LandingReportSync.sync) and of *)
(* the parts of the SOAP client it calls.                                  *)
(*                                                                         *)
(* Time is counted in ticks.  A second has TicksPerSecond ticks (the       *)
(* sub-second part of datetime.now()), a day has SecondsPerDay seconds.    *)
(* A timestamp string is modelled by the instant it denotes: two formatted *)
(* strings are equal exactly when they denote the same tick, so a format   *)
(* that drops the sub-second part or the time of day is a truncation.      *)
(***************************************************************************)
EXTENDS Integers, Sequences, FiniteSets, TLC

\* ---------------------------------------------------------------- bounds
TicksPerSecond == 2
SecondsPerDay == 2
MaxTicks == 2
MaxStubs == 2

\* ------------------------------------------------------ program constants
DefaultDays == 30

TicksPerDay == TicksPerSecond * SecondsPerDay
StartDay == DefaultDays
StartClock == StartDay * TicksPerDay
MaxClock == StartClock + MaxTicks

\* Report identifiers the remote service knows.
Ids == {"1", "2"}

\* ------------------------------------------------------------ string values
NoneVal == [tag |-> "none", t |-> 0]
EmptyStr == [tag |-> "empty", t |-> 0]
Stamp(t) == [tag |-> "stamp", t |-> t]
\* A date string "YYYY-MM-DD" naming day d.
Date(d) == [tag |-> "date", t |-> d]

\* Python truthiness of an optional string: None and "" are falsy.
Truthy(v) == v.tag \notin {"none", "empty"}

\* The time rounded up to the next whole second.
strftime_rounds_up(t) ==
    Stamp(((t + TicksPerSecond - 1) \div TicksPerSecond) * TicksPerSecond)

\* strftime("%Y-%m-%dT%H:%M:%S"): the sub-second part is dropped.
strftime_seconds(t) == Stamp((t \div TicksPerSecond) * TicksPerSecond)

\* strftime("%Y-%m-%dT00:00:00"): the time of day is replaced by midnight.
strftime_midnight(t) == Stamp((t \div TicksPerDay) * TicksPerDay)

\* datetime.isoformat(): full precision.
isoformat(t) == Stamp(t)

\* f"{since}T00:00:00"
since_midnight(sn) == Stamp(sn.t * TicksPerDay)

\* now - timedelta(days=30)
thirty_days_ago(now) == now - DefaultDays * TicksPerDay

\* -------------------------------------------------- documents and summaries
\* The landing_report_id entry of a normalized element, as xml_to_dict
\* produces it: a bare string (no attributes), a mapping with "#text"
\* (attributes and text), a mapping without "#text" (attributes or nothing,
\* no text), or no entry at all.
IdFields ==
    [kind : {"str", "dict"}, text : Ids]
        \cup {[kind |-> "dict_notext", text |-> ""],
              [kind |-> "absent", text |-> ""]}

\* summary.get("landing_report_id", {}) followed by .get("#text", "")
summary_report_id(f) ==
    CASE f.kind = "str" -> f.text
      [] f.kind = "dict" -> f.text
      [] f.kind = "dict_notext" -> ""
      [] f.kind = "absent" -> ""

\* report.get("landing_report_id", "unknown") followed by
\* .get("#text", "unknown")
document_report_id(f) ==
    CASE f.kind = "str" -> f.text
      [] f.kind = "dict" -> f.text
      [] f.kind = "dict_notext" -> "unknown"
      [] f.kind = "absent" -> "unknown"

\* ------------------------------------------------------------ document store
Prefix == "landing_report_"
Suffix == ".json"

\* output_dir / f"landing_report_{report_id}.json"
FileName(report_id) == Prefix \o report_id \o Suffix

\* Path.stem: the name without its last suffix.
Stem(name) == SubSeq(name, 1, Len(name) - Len(Suffix))

\* str.replace(old, ""): every occurrence of old is removed.
RECURSIVE RemoveAll(_, _)
RemoveAll(s, old) ==
    IF Len(s) < Len(old) THEN s
    ELSE IF SubSeq(s, 1, Len(old)) = old
         THEN RemoveAll(SubSeq(s, Len(old) + 1, Len(s)), old)
         ELSE SubSeq(s, 1, 1) \o RemoveAll(SubSeq(s, 2, Len(s)), old)

\* _save_report: the file named after the document's own identifier is
\* created or overwritten.
save_report(dir, doc) == dir \cup {FileName(document_report_id(doc))}

\* The file stems taken as identifiers, the prefix left on.
existing_ids_with_prefix(dir) == {Stem(f) : f \in dir}

\* _get_existing_report_ids: glob landing_report_*.json, strip the name.
get_existing_report_ids(dir) ==
    {RemoveAll(Stem(f), Prefix) : f \in dir}

\* ---------------------------------------------------------------- sync state
NoFile == [exists |-> FALSE, last_sync |-> NoneVal, synced_reports |-> {}]

\* A state file that open(file, "w") has truncated and json.dump has not
\* completed: empty, or a proper prefix of the JSON text.
Torn == [exists |-> TRUE, last_sync |-> [tag |-> "torn", t |-> 0],
         synced_reports |-> {}]

\* json.load accepts the content of the file (or there is no file to read).
json_loads(file) == file # Torn

\* _load_state
load_state(file) ==
    IF file.exists
    THEN [last_sync |-> file.last_sync, synced_reports |-> file.synced_reports]
    ELSE [last_sync |-> NoneVal, synced_reports |-> {}]

\* _save_state: total overwrite of the state file.
save_state(st) ==
    [exists |-> TRUE, last_sync |-> st.last_sync,
     synced_reports |-> st.synced_reports]

\* --------------------------------------------------------------- watermark
\* The branches with the explicit date tested before the full refresh flag.
compute_since_first(fr, sn, st, now) ==
    IF Truthy(sn) THEN since_midnight(sn)
    ELSE IF fr THEN EmptyStr
    ELSE IF Truthy(st.last_sync) THEN st.last_sync
    ELSE strftime_midnight(thirty_days_ago(now))

\* The branches without the full refresh test.
compute_ignores_full_refresh(fr, sn, st, now) ==
    IF Truthy(sn) THEN since_midnight(sn)
    ELSE IF Truthy(st.last_sync) THEN st.last_sync
    ELSE strftime_midnight(thirty_days_ago(now))

\* sync(): "Determine the date to sync from".
compute_date_modified_start(fr, sn, st, now) ==
    IF fr THEN EmptyStr
    ELSE IF Truthy(sn) THEN since_midnight(sn)
    ELSE IF Truthy(st.last_sync) THEN st.last_sync
    ELSE strftime_midnight(thirty_days_ago(now))

\* ------------------------------------------------------------ xml_to_dict
\* Values of the document model: a string, a dictionary (a function from
\* keys to values) or a list (a sequence of values).
Str(s) == [type |-> "str", v |-> s]
Dict(f) == [type |-> "dict", v |-> f]
List(q) == [type |-> "list", v |-> q]
EmptyDict == [k \in {} |-> Str("")]

\* Element.text: None or a string.
NoText == [has |-> FALSE, s |-> ""]
Text(s) == [has |-> TRUE, s |-> s]

\* An ET.Element: attrib is a function from attribute names to strings,
\* children the sequence list(element) gives.
Element(tag, attrib, text, children) ==
    [tag |-> tag, attrib |-> attrib, text |-> text, children |-> children]

EmptyAttrib == [a \in {} |-> ""]

\* The characters str.strip() removes.
Whitespace == {" ", "\t", "\n"}

RECURSIVE lstrip(_)
lstrip(s) ==
    IF Len(s) > 0 /\ SubSeq(s, 1, 1) \in Whitespace
    THEN lstrip(SubSeq(s, 2, Len(s)))
    ELSE s

RECURSIVE rstrip(_)
rstrip(s) ==
    IF Len(s) > 0 /\ SubSeq(s, Len(s), Len(s)) \in Whitespace
    THEN rstrip(SubSeq(s, 1, Len(s) - 1))
    ELSE s

\* str.strip() removing the leading whitespace only.
strip_leading(s) == lstrip(s)

\* str.strip()
strip(s) == lstrip(rstrip(s))

\* "Add attributes with @ prefix"
attrib_items(attrib) ==
    [k \in {"@" \o a : a \in DOMAIN attrib} |->
         Str(attrib[SubSeq(k, 2, Len(k))])]

\* dict.update: the entries of other replace those of d.
update(d, other) == other @@ d

RECURSIVE xml_to_dict(_)
RECURSIVE child_dict_last_wins(_, _)
RECURSIVE child_dict(_, _)

\* The loop over the children with a plain assignment for every child.
child_dict_last_wins(children, n) ==
    IF n = 0 THEN EmptyDict
    ELSE update(child_dict_last_wins(children, n - 1),
                children[n].tag :> xml_to_dict(children[n]))

\* child_dict after the first n iterations of "for child in children".
child_dict(children, n) ==
    IF n = 0 THEN EmptyDict
    ELSE LET d == child_dict(children, n - 1)
             child_data == xml_to_dict(children[n])
             tag == children[n].tag
         IN  IF tag \in DOMAIN d
             THEN IF d[tag].type # "list"
                  THEN [d EXCEPT ![tag] = List(<<d[tag], child_data>>)]
                  ELSE [d EXCEPT ![tag] = List(Append(d[tag].v, child_data))]
             ELSE update(d, tag :> child_data)

xml_to_dict(element) ==
    LET result == attrib_items(element.attrib)
        children == element.children
        text == element.text
    IN  IF Len(children) > 0
        THEN Dict(update(result, child_dict(children, Len(children))))
        ELSE IF text.has /\ text.s # "" /\ strip(text.s) # ""
        THEN IF DOMAIN result # {}
             THEN Dict(update(result, "#text" :> Str(strip(text.s))))
             ELSE Str(strip(text.s))
        ELSE Dict(result)

VARIABLES
    clock,                \* datetime.now()
    state_file,           \* contents of .sync_state.json
    files,                \* names of the report files in output_dir
    pc,                   \* position of the running sync() call
    exc,                  \* where an exception left sync(), "" if none
    full_refresh, since, skip_existing, progress_callback,  \* arguments
    state, date_modified_start, sync_start,                 \* locals
    summaries, existing_ids, i, synced, skipped, errors,    \* locals
    result,               \* value returned by sync()
    fetch_calls,          \* ids passed to get_landing_report in this run
    pre,                  \* state file and files when sync() was called
    last_start,           \* sync_start of the run that last saved the state
    root,                 \* the element parse_landing_report hands over
    normalized,           \* what xml_to_dict returned for it
    progress,             \* the calls of progress_callback in this run
    store,                \* the report files with their contents
    last_saved,           \* the document _save_report was last given
    modified,             \* when the remote last modified each record
    found_ever,           \* identifiers some search has returned so far
    db,                   \* the tables of the relational store
    saving                \* position of the running SupabaseStorage.save_report

vars == <<clock, state_file, files, pc, exc, full_refresh, since,
          skip_existing, progress_callback, state, date_modified_start,
          sync_start, summaries, existing_ids, i, synced, skipped, errors,
          result, fetch_calls, pre, last_start, root, normalized,
          progress, store, last_saved, modified, found_ever, db, saving>>

other_vars == <<store, last_saved, modified, found_ever, db, saving>>
args == <<full_refresh, since, skip_existing, progress_callback>>
locals == <<state, date_modified_start, sync_start, summaries, existing_ids,
            i, synced, skipped, errors>>
loop_locals == <<summaries, existing_ids, i, synced, skipped, errors>>

NoResult == [none |-> TRUE]
NoPre == [state_file |-> NoFile, files |-> {}]

\* Values of `since` a caller passes: None or a date string.
SinceValues == {NoneVal, Date(StartDay - 1)}

\* Summaries a search response holds: report 1 with a bare identifier,
\* report 2 with a decorated one.
SearchStubs == {[kind |-> "str", text |-> "1"], [kind |-> "dict", text |-> "2"]}

\* Documents getLandingReport may return for an identifier: the report with
\* its identifier bare or decorated, or a document without the field.
DocumentsFor(id) ==
    {[kind |-> "str", text |-> id], [kind |-> "dict", text |-> id],
     [kind |-> "absent", text |-> ""]}

\* str(e) of an exception caught in the loop.
ExceptionText == "exception"

RECURSIVE SeqsUpTo(_, _)
SeqsUpTo(S, n) ==
    IF n = 0 THEN {<<>>}
    ELSE LET shorter == SeqsUpTo(S, n - 1)
         IN shorter \cup {Append(s, x) : s \in {q \in shorter : Len(q) = n - 1},
                                         x \in S}

\* No document is being parsed.
NoElement == Element("", EmptyAttrib, NoText, <<>>)
NotNormalized == [type |-> "none", v |-> ""]

\* The sync engine after construction.
InitSync ==
    /\ clock = StartClock
    /\ state_file = NoFile
    /\ files = {}
    /\ pc = "idle"
    /\ exc = ""
    /\ full_refresh = FALSE
    /\ since = NoneVal
    /\ skip_existing = TRUE
    /\ progress_callback = FALSE
    /\ state = load_state(NoFile)
    /\ date_modified_start = EmptyStr
    /\ sync_start = 0
    /\ summaries = <<>>
    /\ existing_ids = {}
    /\ i = 1
    /\ synced = <<>>
    /\ skipped = <<>>
    /\ errors = <<>>
    /\ result = NoResult
    /\ fetch_calls = <<>>
    /\ pre = NoPre
    /\ last_start = 0
    /\ progress = <<>>

\* Nothing has been saved, no search has been made, no record is dated.
NoDocument == [kind |-> "none", text |-> "", version |-> ""]
EmptyStore == [name \in {} |-> NoDocument]
Undated == [id \in Ids |-> 0]
EmptyTable == <<>>
EmptyDb == [landing_reports |-> [rid \in {} |-> NoDocument],
            landing_report_items |-> EmptyTable,
            landing_report_stat_areas |-> EmptyTable]
NotSaving == [pc |-> "idle", report |-> NoDocument, ret |-> "none"]

InitOthers ==
    /\ store = EmptyStore
    /\ last_saved = NoDocument
    /\ modified = Undated
    /\ found_ever = {}
    /\ db = EmptyDb
    /\ saving = NotSaving

Init ==
    /\ InitSync
    /\ root = NoElement
    /\ normalized = NotNormalized
    /\ InitOthers

\* The clock advances.  sync() reads it twice, in Call and in CaptureStart;
\* the time the search and the loop take is counted when the loop has ended.
Tick ==
    /\ UNCHANGED <<last_start, root, normalized, other_vars, progress>>
    /\ clock < MaxClock
    /\ \/ pc \in {"idle", "computed"}
       \/ pc = "loop" /\ i > Len(summaries)
    /\ clock' = clock + 1
    /\ UNCHANGED <<state_file, files, pc, exc, args, locals, result,
                   fetch_calls, pre>>

\* sync() is called: the state is loaded and the boundary is computed.
Call(fr, sn, se, cb) ==
    /\ UNCHANGED <<last_start, root, normalized, other_vars>>
    /\ progress' = <<>>
    /\ pc = "idle"
    /\ json_loads(state_file)
    /\ full_refresh' = fr
    /\ since' = sn
    /\ skip_existing' = se
    /\ progress_callback' = cb
    /\ state' = load_state(state_file)
    /\ date_modified_start' =
           compute_date_modified_start(fr, sn, load_state(state_file), clock)
    /\ pre' = [state_file |-> state_file, files |-> files]
    /\ result' = NoResult
    /\ exc' = ""
    /\ fetch_calls' = <<>>
    /\ pc' = "computed"
    /\ UNCHANGED <<clock, state_file, files, sync_start, loop_locals>>

\* sync_start = datetime.now().  full_refresh and since are not read after
\* this point and are cleared.
CaptureStart ==
    /\ UNCHANGED <<last_start, root, normalized, other_vars, progress>>
    /\ pc = "computed"
    /\ sync_start' = clock
    /\ pc' = "search"
    /\ full_refresh' = FALSE
    /\ since' = NoneVal
    /\ UNCHANGED <<clock, state_file, files, exc, skip_existing,
                   progress_callback, state,
                   date_modified_start, loop_locals, result, fetch_calls, pre>>

\* A failed search that saves the state before the exception leaves sync().
SearchRaisesSavesState(where) ==
    /\ UNCHANGED <<last_start, root, normalized, other_vars, progress>>
    /\ pc = "search"
    /\ pc' = "raised"
    /\ exc' = where
    /\ state_file' = save_state([last_sync |-> strftime_seconds(sync_start),
                                 synced_reports |-> state.synced_reports])
    /\ UNCHANGED <<clock, files, args, locals, result, fetch_calls, pre>>

\* find_user_landing_reports raises (network failure, non-2xx status,
\* malformed SOAP envelope), or parse_landing_report_summary raises on a
\* response that is not well-formed XML.
SearchRaises(where) ==
    /\ UNCHANGED <<last_start, root, normalized, other_vars, progress>>
    /\ pc = "search"
    /\ pc' = "raised"
    /\ exc' = where
    /\ UNCHANGED <<clock, state_file, files, args, locals, result,
                   fetch_calls, pre>>

\* The stop on an empty response, with the state saved as Finalize saves it.
SearchEmptySavesState ==
    /\ UNCHANGED <<last_start, root, normalized, other_vars, progress>>
    /\ pc = "search"
    /\ result' = [error |-> "No response", reports_synced |-> 0]
    /\ state_file' = save_state([last_sync |-> strftime_seconds(sync_start),
                                 synced_reports |-> state.synced_reports])
    /\ pc' = "returned"
    /\ UNCHANGED <<clock, files, exc, args, locals, fetch_calls, pre>>

\* find_user_landing_reports returns None or "".
SearchEmpty ==
    /\ UNCHANGED <<last_start, root, normalized, other_vars, progress>>
    /\ pc = "search"
    /\ result' = [error |-> "No response", reports_synced |-> 0]
    /\ pc' = "returned"
    /\ UNCHANGED <<clock, state_file, files, exc, args, locals,
                   fetch_calls, pre>>

\* The search response parses into a list of summaries.
SearchOk(stubs) ==
    /\ UNCHANGED <<last_start, root, normalized, other_vars, progress>>
    /\ pc = "search"
    /\ summaries' = stubs
    /\ existing_ids' = IF skip_existing THEN get_existing_report_ids(files)
                                        ELSE {}
    /\ synced' = <<>>
    /\ skipped' = <<>>
    /\ errors' = <<>>
    /\ i' = 1
    /\ pc' = "loop"
    /\ UNCHANGED <<clock, state_file, files, exc, args, state,
                   date_modified_start, sync_start, result, fetch_calls, pre>>

InLoop == pc = "loop" /\ i <= Len(summaries)
report_id == summary_report_id(summaries[i])
IsSkipped == skip_existing /\ report_id \in existing_ids

\* progress_callback(i, len(summaries), report_id, action), when one is
\* given.
reported(action) ==
    IF progress_callback
    THEN Append(progress, [current |-> i, total |-> Len(summaries),
                           report_id |-> report_id, action |-> action])
    ELSE progress

\* Skip reporting the stub to the callback as being fetched.
SkipReportsFetching ==
    /\ UNCHANGED <<last_start, root, normalized, other_vars>>
    /\ InLoop
    /\ IsSkipped
    /\ progress' = reported("fetching")
    /\ skipped' = Append(skipped, report_id)
    /\ i' = i + 1
    /\ UNCHANGED <<clock, state_file, files, pc, exc, args, state,
                   date_modified_start, sync_start, summaries, existing_ids,
                   synced, errors, result, fetch_calls, pre>>

\* "Skip if already exists locally"
Skip ==
    /\ UNCHANGED <<last_start, root, normalized, other_vars>>
    /\ InLoop
    /\ IsSkipped
    /\ progress' = reported("skipped")
    /\ skipped' = Append(skipped, report_id)
    /\ i' = i + 1
    /\ UNCHANGED <<clock, state_file, files, pc, exc, args, state,
                   date_modified_start, sync_start, summaries, existing_ids,
                   synced, errors, result, fetch_calls, pre>>

\* progress_callback(...) raises: it is called outside the try block.
CallbackRaises ==
    /\ UNCHANGED <<last_start, root, normalized, other_vars>>
    /\ InLoop
    /\ progress_callback
    /\ progress' = reported(IF IsSkipped THEN "skipped" ELSE "fetching")
    /\ pc' = "raised"
    /\ exc' = "callback"
    /\ UNCHANGED <<clock, state_file, files, args, locals, result,
                   fetch_calls, pre>>

\* A fetched report recorded in the state file as soon as it is saved.
FetchOkSavesState ==
    /\ UNCHANGED <<last_start, root, normalized, other_vars>>
    /\ InLoop
    /\ ~IsSkipped
    /\ progress' = reported("fetching")
    /\ fetch_calls' = Append(fetch_calls, report_id)
    /\ \E doc \in DocumentsFor(report_id) :
           /\ files' = save_report(files, doc)
           /\ synced' = Append(synced,
                  [report_id |-> report_id,
                   file |-> FileName(document_report_id(doc))])
    /\ state_file' =
           save_state([last_sync |-> state.last_sync,
                       synced_reports |-> state.synced_reports
                                              \cup {report_id}])
    /\ i' = i + 1
    /\ UNCHANGED <<clock, pc, exc, args, state,
                   date_modified_start, sync_start, summaries, existing_ids,
                   skipped, errors, result, pre>>

\* get_landing_report returns a document, which is parsed and saved.
FetchOk ==
    /\ UNCHANGED <<last_start, root, normalized, other_vars>>
    /\ InLoop
    /\ ~IsSkipped
    /\ progress' = reported("fetching")
    /\ fetch_calls' = Append(fetch_calls, report_id)
    /\ \E doc \in DocumentsFor(report_id) :
           /\ files' = save_report(files, doc)
           /\ synced' = Append(synced,
                  [report_id |-> report_id,
                   file |-> FileName(document_report_id(doc))])
    /\ i' = i + 1
    /\ UNCHANGED <<clock, state_file, pc, exc, args, state,
                   date_modified_start, sync_start, summaries, existing_ids,
                   skipped, errors, result, pre>>

\* An empty fetch response passed over without an errors entry.
FetchEmptySilent ==
    /\ UNCHANGED <<last_start, root, normalized, other_vars>>
    /\ InLoop
    /\ ~IsSkipped
    /\ progress' = reported("fetching")
    /\ fetch_calls' = Append(fetch_calls, report_id)
    /\ i' = i + 1
    /\ UNCHANGED <<clock, state_file, files, pc, exc, args, state,
                   date_modified_start, sync_start, summaries, existing_ids,
                   synced, skipped, errors, result, pre>>

\* An empty fetch response answered by fetching the same stub again.
FetchEmptyRetries ==
    /\ UNCHANGED <<last_start, root, normalized, other_vars>>
    /\ InLoop
    /\ ~IsSkipped
    /\ progress' = reported("fetching")
    /\ fetch_calls' = Append(fetch_calls, report_id)
    /\ UNCHANGED <<clock, state_file, files, pc, exc, args, locals, result,
                   pre>>

\* get_landing_report returns None or "".
FetchEmpty ==
    /\ UNCHANGED <<last_start, root, normalized, other_vars>>
    /\ InLoop
    /\ ~IsSkipped
    /\ progress' = reported("fetching")
    /\ fetch_calls' = Append(fetch_calls, report_id)
    /\ errors' = Append(errors, [report_id |-> report_id,
                                 error |-> "Empty response"])
    /\ i' = i + 1
    /\ UNCHANGED <<clock, state_file, files, pc, exc, args, state,
                   date_modified_start, sync_start, summaries, existing_ids,
                   synced, skipped, result, pre>>

\* The exception of a fetch leaving the loop instead of being recorded.
FetchRaisesAborts ==
    /\ UNCHANGED <<last_start, root, normalized, other_vars>>
    /\ InLoop
    /\ ~IsSkipped
    /\ progress' = reported("fetching")
    /\ fetch_calls' = Append(fetch_calls, report_id)
    /\ pc' = "raised"
    /\ exc' = "fetch"
    /\ UNCHANGED <<clock, state_file, files, args, locals, result, pre>>

\* get_landing_report or parse_landing_report raises.
FetchRaises ==
    /\ UNCHANGED <<last_start, root, normalized, other_vars>>
    /\ InLoop
    /\ ~IsSkipped
    /\ progress' = reported("fetching")
    /\ fetch_calls' = Append(fetch_calls, report_id)
    /\ errors' = Append(errors, [report_id |-> report_id, error |-> ExceptionText])
    /\ i' = i + 1
    /\ UNCHANGED <<clock, state_file, files, pc, exc, args, state,
                   date_modified_start, sync_start, summaries, existing_ids,
                   synced, skipped, result, pre>>

\* _save_report raises: before the file is created (open fails) or after
\* (the write fails).
SaveRaises ==
    /\ UNCHANGED <<last_start, root, normalized, other_vars>>
    /\ InLoop
    /\ ~IsSkipped
    /\ progress' = reported("fetching")
    /\ fetch_calls' = Append(fetch_calls, report_id)
    /\ \E doc \in DocumentsFor(report_id), created \in BOOLEAN :
           files' = IF created THEN save_report(files, doc) ELSE files
    /\ errors' = Append(errors, [report_id |-> report_id, error |-> ExceptionText])
    /\ i' = i + 1
    /\ UNCHANGED <<clock, state_file, pc, exc, args, state,
                   date_modified_start, sync_start, summaries, existing_ids,
                   synced, skipped, result, pre>>

synced_ids == {synced[k].report_id : k \in 1..Len(synced)}

\* The result sync() builds after the loop.
sync_result(start) ==
    [sync_date |-> isoformat(start),
     date_filter |-> date_modified_start,
     reports_found |-> Len(summaries),
     reports_synced |-> Len(synced),
     reports_skipped |-> Len(skipped),
     reports_failed |-> Len(errors),
     synced |-> synced,
     errors |-> errors]

\* Finalize with the given new state: _save_state and the result.
FinalizeWith(new_state, start) ==
    /\ last_start' = sync_start
    /\ UNCHANGED <<root, normalized, progress, other_vars>>
    /\ pc = "loop"
    /\ i > Len(summaries)
    /\ state' = new_state
    /\ state_file' = save_state(new_state)
    /\ result' = sync_result(start)
    /\ pc' = "returned"
    /\ UNCHANGED <<clock, files, exc, args, date_modified_start, sync_start,
                   loop_locals, fetch_calls, pre>>

\* Finalize taking the time at the end of the loop as the watermark.
FinalizeEndTime ==
    FinalizeWith([last_sync |-> strftime_seconds(clock),
                  synced_reports |-> state.synced_reports \cup synced_ids],
                 clock)

\* Finalize replacing synced_reports by this run's identifiers.
FinalizeReplacesSynced ==
    FinalizeWith([last_sync |-> strftime_seconds(sync_start),
                  synced_reports |-> synced_ids],
                 sync_start)

\* Finalize taking the search boundary as the watermark when there is one.
FinalizeBoundaryAsWatermark ==
    FinalizeWith([last_sync |-> IF date_modified_start.tag = "stamp"
                                THEN date_modified_start
                                ELSE strftime_seconds(sync_start),
                  synced_reports |-> state.synced_reports \cup synced_ids],
                 sync_start)

\* Finalize leaving the state alone when the search found nothing.
FinalizeNothingFound ==
    IF Len(summaries) = 0
    THEN /\ pc = "loop"
         /\ result' = sync_result(sync_start)
         /\ pc' = "returned"
         /\ UNCHANGED <<clock, state_file, files, exc, args, locals,
                        fetch_calls, pre, last_start, root, normalized,
                        progress, other_vars>>
    ELSE FinalizeWith([last_sync |-> strftime_seconds(sync_start),
                       synced_reports |-> state.synced_reports \cup synced_ids],
                      sync_start)

\* "Update state", _save_state and the result.
Finalize ==
    FinalizeWith([last_sync |-> strftime_seconds(sync_start),
                  synced_reports |-> state.synced_reports \cup synced_ids],
                 sync_start)

\* The caller has the result or the exception; the next call may start.
Done ==
    /\ UNCHANGED <<last_start, root, normalized, other_vars>>
    /\ progress' = <<>>
    /\ pc \in {"returned", "raised"}
    /\ pc' = "idle"
    /\ exc' = ""
    /\ full_refresh' = FALSE
    /\ since' = NoneVal
    /\ skip_existing' = TRUE
    /\ progress_callback' = FALSE
    /\ state' = load_state(NoFile)
    /\ date_modified_start' = EmptyStr
    /\ sync_start' = 0
    /\ summaries' = <<>>
    /\ existing_ids' = {}
    /\ i' = 1
    /\ synced' = <<>>
    /\ skipped' = <<>>
    /\ errors' = <<>>
    /\ result' = NoResult
    /\ fetch_calls' = <<>>
    /\ pre' = NoPre
    /\ UNCHANGED <<clock, state_file, files>>

Next ==
    \/ Tick
    \/ \E fr \in BOOLEAN, sn \in SinceValues, se \in BOOLEAN, cb \in BOOLEAN :
           Call(fr, sn, se, cb)
    \/ CaptureStart
    \/ \E where \in {"search", "parse_summary"} : SearchRaises(where)
    \/ SearchEmpty
    \/ \E stubs \in SeqsUpTo(SearchStubs, MaxStubs) : SearchOk(stubs)
    \/ Skip
    \/ CallbackRaises
    \/ FetchOk
    \/ FetchEmpty
    \/ FetchRaises
    \/ SaveRaises
    \/ Finalize
    \/ Done

Spec == Init /\ [][Next]_vars

\* ------------------------------------------------------------------ claims
IsCall == pc = "idle" /\ pc' = "computed"
Persisted == state_file.last_sync

\* C1 (as stated): the boundary is resolved in the order full_refresh, since,
\* persisted last_sync, and with none of them it is 30 days before now.
C1_AsStated ==
    [][IsCall =>
          date_modified_start' =
              IF full_refresh' THEN EmptyStr
              ELSE IF since' # NoneVal THEN Stamp(since'.t * TicksPerDay)
              ELSE IF Persisted # NoneVal THEN Persisted
              ELSE Stamp(clock - DefaultDays * TicksPerDay)]_vars

\* C1 (amended): the boundary sent to search is resolved in strict priority
\* order for every combination of (full_refresh, since, persisted last_sync):
\* full_refresh gives the empty boundary whatever the other two are; else a
\* supplied since is used as that date at 00:00:00 even when a last_sync is
\* persisted; else the persisted last_sync is used; else the boundary is
\* 00:00:00 of the date 30 days before now.
C1_WatermarkPriority ==
    [][/\ IsCall =>
              date_modified_start' =
                  IF full_refresh' THEN EmptyStr
                  ELSE IF since' # NoneVal THEN Stamp(since'.t * TicksPerDay)
                  ELSE IF Persisted # NoneVal THEN Persisted
                  ELSE Stamp(((clock \div TicksPerDay) - DefaultDays)
                                 * TicksPerDay)
       /\ pc \in {"computed", "search"} =>
              date_modified_start' = date_modified_start
      ]_vars

\* A call with full_refresh, a since date and a persisted last_sync.
C1_Witness ==
    /\ pc = "computed"
    /\ full_refresh
    /\ since # NoneVal
    /\ pre.state_file.last_sync # NoneVal
    /\ date_modified_start = EmptyStr

EmptyStop == pc = "returned" /\ "error" \in DOMAIN result
SearchFailed == exc \in {"search", "parse_summary"}

\* C2: when search returns an empty or absent response the run stops with
\* no fetch issued, no document written and the sync state as it was before
\* the call.
C2_EmptySearchLeavesState ==
    EmptyStop =>
        /\ fetch_calls = <<>>
        /\ files = pre.files
        /\ state_file = pre.state_file

\* An empty-search stop of a run that started with a persisted last_sync,
\* in a later second than that last_sync.
C2_Witness ==
    /\ EmptyStop
    /\ pre.state_file.exists
    /\ strftime_seconds(sync_start) # pre.state_file.last_sync

Finalized == pc = "returned" /\ "error" \notin DOMAIN result
IsFinalize == pc = "loop" /\ pc' = "returned"
Range(seq) == {seq[k] : k \in 1..Len(seq)}
Count(seq, x) == Cardinality({k \in 1..Len(seq) : seq[k] = x})
Last(seq) == seq[Len(seq)]

\* Identifiers under which the directory dir holds a document.
StoredIds(dir) == {id \in Ids \cup {"unknown"} : FileName(id) \in dir}
\* Identifiers of the summaries the search returned, in search order.
FoundIds == [k \in 1..Len(summaries) |-> summaries[k].text]
SyncedIds(seq) == [k \in 1..Len(seq) |-> seq[k].report_id]

\* C3: with skip_existing=true the identifiers for which fetch is called in
\* a run are exactly the identifiers returned by search minus those in the
\* Document Store at the start of the loop, and every stub whose identifier
\* is already stored is skipped and counted in reports_skipped.
\* It holds of the stubs processed so far at every point of the loop, and
\* of all stubs when the run finalizes.
C3_FetchedIsDifference ==
    (pc \in {"loop", "returned", "raised"} /\ ~EmptyStop /\ ~SearchFailed
         /\ skip_existing) =>
        LET done == SubSeq(FoundIds, 1, i - 1)
            stored == StoredIds(pre.files)
        IN  /\ Range(fetch_calls) = Range(done) \ stored
            /\ Range(skipped) = Range(done) \cap stored
            /\ Len(skipped) =
                   Cardinality({k \in 1..Len(done) : done[k] \in stored})
            /\ Finalized =>
                   /\ i - 1 = Len(summaries)
                   /\ result.reports_skipped = Len(skipped)

\* A run that skipped a stored report and fetched one that was not stored.
C3_Witness ==
    /\ Finalized
    /\ skip_existing
    /\ Len(skipped) = 1
    /\ Len(fetch_calls) = 1

\* C4: a per-record failure (fetch returns empty, or fetch, normalize or
\* save raises) is isolated: the failing identifier gets an errors entry with
\* a message, the loop goes on to the next stub, fetched records appear in
\* synced, nothing but a callback takes the run out of the loop before the
\* last stub, and the run then finalizes and advances the watermark.
C4_FailureIsolated ==
    [][/\ (pc = "loop" /\ fetch_calls' # fetch_calls) =>
              /\ pc' = "loop"
              /\ i' = i + 1
              /\ fetch_calls' = Append(fetch_calls, FoundIds[i])
              /\ \/ /\ Len(synced') = Len(synced) + 1
                    /\ Last(synced').report_id = FoundIds[i]
                    /\ errors' = errors
                 \/ /\ Len(errors') = Len(errors) + 1
                    /\ Last(errors').report_id = FoundIds[i]
                    /\ Last(errors').error # ""
                    /\ synced' = synced
       /\ (pc = "loop" /\ pc' = "raised") =>
              exc' = "callback" /\ fetch_calls' = fetch_calls
       /\ (pc = "loop" /\ pc' \notin {"loop", "raised"}) =>
              /\ i > Len(summaries)
              /\ pc' = "returned"
              /\ result'.synced = synced
              /\ result'.errors = errors
              /\ state_file'.last_sync.t = sync_start - (sync_start % TicksPerSecond)
      ]_vars

\* A finalized run whose first fetch failed and whose second succeeded, with
\* the watermark moved.
C4_Witness ==
    /\ Finalized
    /\ Len(summaries) = 2
    /\ Len(result.errors) = 1
    /\ Len(result.synced) = 1
    /\ result.errors[1].report_id = FoundIds[1]
    /\ result.synced[1].report_id = FoundIds[2]
    /\ state_file.last_sync # pre.state_file.last_sync

\* C5 (as stated): after a run that reaches Finalize the persisted last_sync
\* equals the time captured at the start of the run and equals the sync_date
\* of the result.
C5_AsStated ==
    Finalized =>
        /\ state_file.last_sync = Stamp(sync_start)
        /\ state_file.last_sync = result.sync_date

\* C5 (amended): sync_start is the clock read before the search call and is
\* not changed afterwards; after a run that reaches Finalize the persisted
\* last_sync is sync_start with the sub-second part dropped, not the time at
\* which the loop ended, and the sync_date of the result is sync_start at
\* full precision, so the two name the same second.
C5_WatermarkIsStartSecond ==
    [][/\ (pc = "computed" /\ pc' = "search") => sync_start' = clock
       /\ (pc \in {"search", "loop"}) => sync_start' = sync_start
       /\ IsFinalize =>
              /\ state_file'.last_sync.tag = "stamp"
              /\ state_file'.last_sync.t =
                     sync_start - (sync_start % TicksPerSecond)
              /\ result'.sync_date = Stamp(sync_start)
              /\ result'.sync_date.t \div TicksPerSecond =
                     state_file'.last_sync.t \div TicksPerSecond
      ]_vars

\* A finalized run whose loop ended in a later second than it started.
C5_Witness ==
    /\ Finalized
    /\ clock \div TicksPerSecond > sync_start \div TicksPerSecond
    /\ state_file.last_sync.t \div TicksPerSecond = sync_start \div TicksPerSecond

\* C6: over any sequence of runs the persisted synced_reports never shrinks:
\* a run that reaches Finalize leaves exactly the union of the pre-run set
\* and the identifiers synced in the run, any other run leaves it unchanged.
C6_SyncedReportsUnion ==
    [][/\ state_file.synced_reports \subseteq state_file'.synced_reports
       /\ IsFinalize =>
              state_file'.synced_reports =
                  pre.state_file.synced_reports
                      \cup Range(SyncedIds(result'.synced))
       /\ ~IsFinalize => state_file'.synced_reports = state_file.synced_reports
      ]_vars

\* A finalized run that found a non-empty set and added a new identifier.
C6_Witness ==
    /\ Finalized
    /\ pre.state_file.synced_reports # {}
    /\ Range(SyncedIds(result.synced)) # {}
    /\ Range(SyncedIds(result.synced)) \cap pre.state_file.synced_reports = {}
    /\ state_file.synced_reports =
           pre.state_file.synced_reports \cup Range(SyncedIds(result.synced))

\* C7: the persisted last_sync never moves backwards over sequential runs
\* with a non-decreasing clock, whatever since or full_refresh a run is
\* given, and once set it is never unset.
C7_WatermarkMonotonic ==
    [][/\ state_file.last_sync.t <= state_file'.last_sync.t
       /\ state_file.last_sync # NoneVal => state_file'.last_sync # NoneVal
      ]_vars

\* A finalized run that was given a since date earlier than the last_sync
\* persisted before it.
C7_Witness ==
    /\ Finalized
    /\ pre.state_file.last_sync # NoneVal
    /\ date_modified_start.tag = "stamp"
    /\ date_modified_start.t < pre.state_file.last_sync.t
    /\ state_file.last_sync.t > pre.state_file.last_sync.t

\* C8: a transport or protocol error in search leaves sync() as a raised
\* failure: no result is returned, no fetch is issued, no document is
\* written and the sync state is as it was before the run.
C8_SearchErrorFatal ==
    SearchFailed =>
        /\ pc = "raised"
        /\ result = NoResult
        /\ fetch_calls = <<>>
        /\ files = pre.files
        /\ state_file = pre.state_file

\* A search response that is not well-formed XML, in a run that started
\* with a persisted last_sync of an earlier second.
C8_Witness ==
    /\ pc = "raised"
    /\ exc = "parse_summary"
    /\ pre.state_file.exists
    /\ strftime_seconds(sync_start) # pre.state_file.last_sync

ResultFields ==
    {"sync_date", "date_filter", "reports_found", "reports_synced",
     "reports_skipped", "reports_failed", "synced", "errors"}

\* C9: every value sync() returns without raising, the stop on an empty
\* search response included, carries sync_date, date_filter, reports_found,
\* reports_synced, reports_skipped, reports_failed, synced and errors, and
\* on the empty-search stop reports zero found and zero synced.
C9_ResultStructured ==
    pc = "returned" =>
        /\ ResultFields \subseteq DOMAIN result
        /\ EmptyStop => result.reports_found = 0 /\ result.reports_synced = 0

\* C10: in every result of a run that reaches Finalize each stub returned by
\* search is accounted for in exactly one of synced, skipped or errors, so
\* reports_found = reports_synced + reports_skipped + reports_failed.
C10_EveryStubAccounted ==
    Finalized =>
        /\ result.reports_found = Len(summaries)
        /\ result.reports_found =
               result.reports_synced + result.reports_skipped
                   + result.reports_failed
        /\ result.reports_synced = Len(result.synced)
        /\ result.reports_failed = Len(result.errors)
        /\ result.reports_skipped = Len(skipped)
        /\ \A id \in Range(FoundIds) :
               Count(FoundIds, id) =
                   Count(SyncedIds(result.synced), id) + Count(skipped, id)
                       + Count(SyncedIds(result.errors), id)

\* A finalized run with one stub skipped and one failed.
C10_Witness ==
    /\ Finalized
    /\ result.reports_found = 2
    /\ result.reports_skipped = 1
    /\ result.reports_failed = 1

C12_CallbackSideChannel ==
    [][(pc = "loop" /\ progress_callback) =>
           /\ pc' \in {"loop", "returned"}
           /\ pc' = "returned" => i > Len(summaries)]_vars

\* C14: in any run the sync state is read once, at the start, and written at
\* most once, only after the loop has processed every stub; a run that ends
\* earlier (empty search, search failure, an uncaught exception in the loop)
\* leaves the persisted sync state equal to its pre-run value.
C14_StateWrittenOnceAtEnd ==
    /\ [][state_file' # state_file =>
              pc = "loop" /\ i > Len(summaries) /\ pc' = "returned"]_vars
    /\ [](pc \in {"computed", "search", "loop"} =>
              state = load_state(pre.state_file) /\ state_file = pre.state_file)
    /\ []((pc = "raised" \/ EmptyStop) => state_file = pre.state_file)

\* A run that an exception left in the loop after it had stored a report,
\* with a sync state persisted before it.
C14_Witness ==
    /\ pc = "raised"
    /\ exc = "callback"
    /\ Len(synced) = 1
    /\ pre.state_file.exists
    /\ state_file = pre.state_file

\* A run called with no since and no full_refresh: its boundary is neither
\* empty nor the midnight of a since date.
DefaultRun ==
    /\ date_modified_start.tag = "stamp"
    /\ date_modified_start \notin
           {since_midnight(sn) : sn \in SinceValues \ {NoneVal}}

\* C16: a record that is already stored and is seen again in the search
\* result of a later default run (no since, no full refresh, default
\* skip_existing) is fetched again and its stored document overwritten.
C16_StoredRecordRefetched ==
    (Finalized /\ skip_existing /\ DefaultRun) =>
        \A k \in 1..Len(FoundIds) :
            FoundIds[k] \in StoredIds(pre.files) =>
                FoundIds[k] \in Range(fetch_calls)

FullRefreshRun == date_modified_start = EmptyStr

IsDefaultCallAfterRun ==
    IsCall /\ ~full_refresh' /\ since' = NoneVal /\ state_file.exists

\* C15 (as stated): the next run with no since and no full refresh searches
\* with a boundary equal to the start time of the run that saved the state.
C15_AsStated ==
    [][IsDefaultCallAfterRun =>
           date_modified_start' = Stamp(last_start)]_vars

\* C15 (amended): a record modified at or after the start time of a run
\* that reached Finalize is not missed: the next run with no since and no
\* full refresh searches with a boundary equal to that start time with its
\* sub-second part dropped, which is no later than the start time and so no
\* later than the modification time.
C15_BoundaryNotAfterStart ==
    [][IsDefaultCallAfterRun =>
           /\ date_modified_start'.tag = "stamp"
           /\ date_modified_start'.t = last_start - (last_start % TicksPerSecond)
           /\ \A m \in last_start..MaxClock : date_modified_start'.t <= m
      ]_vars

\* A default call after a run that started within a second: its boundary is
\* earlier than that start.
C15_Witness ==
    /\ pc = "computed"
    /\ ~full_refresh
    /\ since = NoneVal
    /\ pre.state_file.exists
    /\ last_start % TicksPerSecond # 0
    /\ date_modified_start.t < last_start

\* ------------------------------------------------- interrupted _save_state
\* The state sync() hands to _save_state after the loop.
updated_state ==
    [last_sync |-> strftime_seconds(sync_start),
     synced_reports |-> state.synced_reports \cup synced_ids]

\* The contents the state file can have when the process stops inside
\* _save_state: untouched before open(), truncated or partly written after
\* it, complete when json.dump has written everything.
InterruptedSave(file, st) == {file, Torn, save_state(st)}

\* The process stops inside _save_state and is started again: the memory of
\* the run is lost, the files are what they were at that moment.
CrashInSave ==
    /\ pc = "loop"
    /\ i > Len(summaries)
    /\ \E content \in InterruptedSave(state_file, updated_state) :
           /\ state_file' = content
           /\ last_start' = IF content = save_state(updated_state)
                            THEN sync_start ELSE last_start
    /\ pc' = "idle"
    /\ exc' = ""
    /\ full_refresh' = FALSE
    /\ since' = NoneVal
    /\ skip_existing' = TRUE
    /\ progress_callback' = FALSE
    /\ state' = load_state(NoFile)
    /\ date_modified_start' = EmptyStr
    /\ sync_start' = 0
    /\ summaries' = <<>>
    /\ existing_ids' = {}
    /\ i' = 1
    /\ synced' = <<>>
    /\ skipped' = <<>>
    /\ errors' = <<>>
    /\ result' = NoResult
    /\ fetch_calls' = <<>>
    /\ pre' = [state_file |-> state_file, files |-> files]
    /\ progress' = <<>>
    /\ UNCHANGED <<clock, files, root, normalized, other_vars>>

\* sync() is called and json.load raises in _load_state, before anything
\* else is done.
LoadRaises ==
    /\ UNCHANGED <<last_start, root, normalized, other_vars, progress>>
    /\ pc = "idle"
    /\ ~json_loads(state_file)
    /\ pc' = "raised"
    /\ exc' = "load_state"
    /\ UNCHANGED <<clock, state_file, files, args, locals, result,
                   fetch_calls, pre>>

NextCrash ==
    \/ Next
    \/ CrashInSave
    \/ LoadRaises

SpecCrash == Init /\ [][NextCrash]_vars

\* C13: when the process stops during the state save, the state file holds
\* the complete previous state or the complete new state afterwards, and the
\* next load returns one of the two.
C13_SaveAtomic ==
    /\ [][(pc = "loop" /\ pc' = "idle") =>
              state_file' \in {state_file, save_state(updated_state)}]_vars
    /\ [](pc = "raised" => exc # "load_state")

\* ------------------------------------------------- xml_to_dict on its own
MaxChildren == 3

AttrNames == {"id"}
Attribs == {[a \in S |-> "7"] : S \in SUBSET AttrNames}
Texts == {NoText, Text(""), Text(" "), Text("X"), Text(" X\n")}
ChildTexts == {NoText, Text("X"), Text(" Y ")}
ChildTags == {"item", "b"}

\* Children without children of their own, and children that have one.
Leaves ==
    {Element(t, a, x, <<>>) : t \in ChildTags, a \in Attribs, x \in ChildTexts}
Nested ==
    {Element("item", EmptyAttrib, x, <<Element("b", EmptyAttrib, Text("X"), <<>>)>>) :
         x \in {NoText, Text("Z")}}

\* The elements parse_landing_report is given.
Roots ==
    {Element("landing_report", a, x, kids) :
         a \in Attribs, x \in Texts,
         kids \in SeqsUpTo(Leaves \cup Nested, MaxChildren)}

InitNorm ==
    /\ InitSync
    /\ InitOthers
    /\ root \in Roots
    /\ normalized = NotNormalized

\* parse_landing_report: xml_to_dict(root)
Normalize ==
    /\ normalized.type = "none"
    /\ normalized' = xml_to_dict(root)
    /\ UNCHANGED <<clock, state_file, files, pc, exc, args, locals, result,
                   fetch_calls, pre, last_start, root, progress,
                   other_vars>>

NextNorm == Normalize

SpecNorm == InitNorm /\ [][NextNorm]_vars

\* xml_to_dict has returned.
Normalized == normalized.type # "none"
HasAttributes(e) == DOMAIN e.attrib # {}
HasChildren(e) == Len(e.children) > 0
AttributeKeys(e) == {"@" \o a : a \in DOMAIN e.attrib}
ChildTagsOf(e) == {e.children[k].tag : k \in 1..Len(e.children)}

\* The text is absent, empty or made of whitespace only.
Blank(text) ==
    ~text.has \/ \A k \in 1..Len(text.s) : SubSeq(text.s, k, k) \in Whitespace

\* v is s without the whitespace at its two ends.
IsTrimOf(v, s) ==
    /\ Len(v) > 0
    /\ SubSeq(v, 1, 1) \notin Whitespace
    /\ SubSeq(v, Len(v), Len(v)) \notin Whitespace
    /\ \E a \in 0..Len(s) :
           /\ a + Len(v) <= Len(s)
           /\ SubSeq(s, a + 1, a + Len(v)) = v
           /\ \A k \in (1..a) \cup ((a + Len(v) + 1)..Len(s)) :
                  SubSeq(s, k, k) \in Whitespace

\* Structural equality of two values of the document model.
RECURSIVE Same(_, _)
Same(x, y) ==
    /\ x.type = y.type
    /\ CASE x.type = "dict" ->
                /\ DOMAIN x.v = DOMAIN y.v
                /\ \A k \in DOMAIN x.v : Same(x.v[k], y.v[k])
         [] x.type = "list" ->
                /\ Len(x.v) = Len(y.v)
                /\ \A k \in 1..Len(x.v) : Same(x.v[k], y.v[k])
         [] OTHER -> x.v = y.v

\* The attribute entries of e are in the dictionary d.
KeepsAttributes(e, d) ==
    \A a \in DOMAIN e.attrib :
        /\ ("@" \o a) \in DOMAIN d
        /\ Same(d["@" \o a], Str(e.attrib[a]))

\* C18: an element with attributes or children and with non-blank text is
\* normalized to a mapping that keeps the attribute and child entries and
\* holds the trimmed text under "#text".
C18_TextKeptInMapping ==
    (/\ Normalized
     /\ HasAttributes(root) \/ HasChildren(root)
     /\ ~Blank(root.text))
    => /\ normalized.type = "dict"
       /\ KeepsAttributes(root, normalized.v)
       /\ ChildTagsOf(root) \subseteq DOMAIN normalized.v
       /\ "#text" \in DOMAIN normalized.v
       /\ normalized.v["#text"].type = "str"
       /\ IsTrimOf(normalized.v["#text"].v, root.text.s)

\* C19: an element without attributes and children whose text is not blank
\* is normalized to the bare trimmed text; an element with attributes,
\* without children and with blank text is normalized to a mapping holding
\* exactly the @-prefixed attributes, without "#text".
C19_Collapsing ==
    Normalized =>
        /\ (~HasAttributes(root) /\ ~HasChildren(root) /\ ~Blank(root.text))
           => /\ normalized.type = "str"
              /\ IsTrimOf(normalized.v, root.text.s)
        /\ (HasAttributes(root) /\ ~HasChildren(root) /\ Blank(root.text))
           => /\ normalized.type = "dict"
              /\ DOMAIN normalized.v = AttributeKeys(root)
              /\ KeepsAttributes(root, normalized.v)

\* A text with whitespace at both ends has been collapsed to its trimmed
\* form.
C19_Witness ==
    /\ normalized.type = "str"
    /\ ~HasAttributes(root)
    /\ root.text = Text(" X\n")
    /\ normalized.v = "X"

\* The positions of the children with tag t, and the j-th of them in
\* document order.
Positions(e, t) == {k \in 1..Len(e.children) : e.children[k].tag = t}
Nth(S, j) == CHOOSE k \in S : Cardinality({m \in S : m <= k}) = j

\* C20: a child tag occurring n >= 2 times maps to the n-element list of
\* the normalized children with that tag in document order, duplicates
\* kept and other tags in between or not; a child tag occurring once maps
\* to the normalized child itself, which is not a list.
C20_ListCoalescing ==
    (Normalized /\ HasChildren(root)) =>
        /\ normalized.type = "dict"
        /\ \A t \in ChildTagsOf(root) :
               LET at == Positions(root, t)
                   n == Cardinality(at)
               IN  /\ t \in DOMAIN normalized.v
                   /\ n >= 2 =>
                          /\ normalized.v[t].type = "list"
                          /\ Len(normalized.v[t].v) = n
                          /\ \A j \in 1..n :
                                 Same(normalized.v[t].v[j],
                                      xml_to_dict(root.children[Nth(at, j)]))
                   /\ n = 1 =>
                          /\ normalized.v[t].type # "list"
                          /\ Same(normalized.v[t],
                                  xml_to_dict(root.children[Nth(at, 1)]))

\* Two equal item children with a b child between them.
C20_Witness ==
    /\ Normalized
    /\ Len(root.children) = 3
    /\ root.children[1].tag = "item"
    /\ root.children[2].tag = "b"
    /\ root.children[3] = root.children[1]
    /\ normalized.v["item"].type = "list"
    /\ Len(normalized.v["item"].v) = 2
    /\ normalized.v["b"].type # "list"

\* C22: every identifier in the persisted synced_reports is the key of a
\* document the store holds, whatever document the remote returned for the
\* fetched identifier.
C22_SyncedReportsStored ==
    state_file.synced_reports \subseteq get_existing_report_ids(files)

\* The entries of synced made for the identifier id.
SyncedFor(id) == {k \in 1..Len(synced) : synced[k].report_id = id}
FailedIds == {errors[k].report_id : k \in 1..Len(errors)}

\* C23: an identifier that is not stored and occurs k times in the search
\* result is fetched k times; when the fetches succeed it occurs k times in
\* synced, every result is written over the same stored document, and the
\* identifier is in the persisted synced_reports.
C23_DuplicatesFetchedEach ==
    Finalized =>
        \A id \in Range(FoundIds) :
            (id \notin get_existing_report_ids(pre.files) /\ id \notin FailedIds)
            => /\ Count(fetch_calls, id) = Count(FoundIds, id)
               /\ Cardinality(SyncedFor(id)) = Count(FoundIds, id)
               /\ \A k, m \in SyncedFor(id) :
                      /\ synced[k].file = synced[m].file
                      /\ synced[k].file \in files
               /\ id \in state_file.synced_reports

\* The run has finalized after a search response without summaries.
ZeroStubsRun == Finalized /\ Len(summaries) = 0

\* C25 (as stated): after a search response without summaries the run
\* finalizes and last_sync is the start time of the run.
C25_AsStated ==
    ZeroStubsRun => state_file.last_sync = Stamp(sync_start)

\* C25 (amended): a search response that parses into zero summaries is a
\* completed search: the run can only go on to Finalize, last_sync becomes
\* the start time of the run with its sub-second part dropped,
\* synced_reports and the stored documents are unchanged, nothing is
\* fetched and the result reports 0 found, synced, skipped and failed.
C25_ZeroStubsCompletes ==
    /\ [][(pc = "loop" /\ Len(summaries) = 0) =>
              /\ pc' \in {"loop", "returned"}
              /\ pc' = "returned" => "error" \notin DOMAIN result']_vars
    /\ [](ZeroStubsRun =>
              /\ state_file.exists
              /\ state_file.last_sync = strftime_seconds(sync_start)
              /\ state_file.synced_reports =
                     load_state(pre.state_file).synced_reports
              /\ files = pre.files
              /\ fetch_calls = <<>>
              /\ result.reports_found = 0
              /\ result.reports_synced = 0
              /\ result.reports_skipped = 0
              /\ result.reports_failed = 0)

\* A run that started within a second finalized on zero summaries and kept
\* the identifiers of an earlier run.
C25_Witness ==
    /\ ZeroStubsRun
    /\ sync_start % TicksPerSecond # 0
    /\ pre.state_file.exists
    /\ state_file.synced_reports # {}

\* C26: with skip_existing = FALSE every stub of the search result is
\* fetched, stored identifiers included, nothing is skipped, and every
\* document fetched with success is written over the document stored for
\* the identifier it was fetched for.
C26_NoReconciliation ==
    (Finalized /\ ~skip_existing) =>
        /\ existing_ids = {}
        /\ fetch_calls = FoundIds
        /\ result.reports_skipped = 0
        /\ \A k \in 1..Len(synced) :
               /\ synced[k].file = FileName(synced[k].report_id)
               /\ synced[k].file \in files

\* C29: an identifier whose fetch, parse or save failed in a run and that
\* the run did not sync is among the stored identifiers after the run only
\* if it was among them before the run.
C29_FailureLeavesNoDocument ==
    Finalized =>
        \A id \in FailedIds \ synced_ids :
            id \in get_existing_report_ids(files)
                => id \in get_existing_report_ids(pre.files)

\* The identifiers of the calls of the callback made with the given tag, in
\* the order of the calls.
RECURSIVE ReportedAs(_, _)
ReportedAs(calls, action) ==
    IF calls = <<>> THEN <<>>
    ELSE LET rest == ReportedAs(SubSeq(calls, 1, Len(calls) - 1), action)
         IN  IF Last(calls).action = action
             THEN Append(rest, Last(calls).report_id)
             ELSE rest

\* a can be obtained from b by leaving entries out.
RECURSIVE IsSubsequence(_, _)
IsSubsequence(a, b) ==
    IF a = <<>> THEN TRUE
    ELSE IF b = <<>> THEN FALSE
    ELSE IF a[1] = b[1] THEN IsSubsequence(Tail(a), Tail(b))
    ELSE IsSubsequence(a, Tail(b))

ErrorIds == [k \in 1..Len(errors) |-> errors[k].report_id]

SpecLive == Spec /\ WF_vars(Next)

\* C27: the loop is a single pass without retries that always terminates:
\* for n stubs it makes n iterations and one fetch call per stub that is not
\* skipped, and then reaches Finalize.
C27_SinglePassTerminates ==
    /\ [](Finalized =>
              /\ i = Len(summaries) + 1
              /\ Len(fetch_calls) = result.reports_found - result.reports_skipped)
    /\ [][pc = "loop" => i' \in {i, i + 1} /\ (i' = i => fetch_calls' = fetch_calls)]_vars
    /\ (pc = "loop") ~> Finalized

\* ----------------------------------------------- _save_report on its own
\* Documents with the shapes of landing_report_id xml_to_dict can produce,
\* in two versions of the rest of the document.
Versions == {"a", "b"}
StoredDocuments ==
    {[kind |-> f.kind, text |-> f.text, version |-> v] :
         f \in IdFields, v \in Versions}

\* open(filename, "w") keeping the contents of a file that exists.
save_report_keeps_first(st, doc) ==
    st @@ (FileName(document_report_id(doc)) :> doc)

\* _save_report with the contents of the files: open(filename, "w") and
\* json.dump of the report.
save_report_contents(st, doc) ==
    (FileName(document_report_id(doc)) :> doc) @@ st

InitStore ==
    /\ InitSync
    /\ root = NoElement
    /\ normalized = NotNormalized
    /\ InitOthers

\* _save_report(report)
SaveReport(doc) ==
    /\ files' = save_report(files, doc)
    /\ store' = save_report_contents(store, doc)
    /\ last_saved' = doc
    /\ UNCHANGED <<clock, state_file, pc, exc, args, locals, result,
                   fetch_calls, pre, last_start, root, normalized, progress,
                   modified, found_ever, db, saving>>

NextStore == \E doc \in StoredDocuments : SaveReport(doc)

SpecStore == InitStore /\ [][NextStore]_vars

\* C21: _save_report stores the document under the key taken from its own
\* landing_report_id, the content value when the id is decorated; what was
\* stored under that key is replaced as a whole and nothing else changes;
\* saving the same document again changes nothing; the identifier is among
\* the enumerated ids afterwards.
C21_SaveKeyedOverwrite ==
    /\ [](files = DOMAIN store)
    /\ [][LET doc == last_saved'
              key == IF doc.kind \in {"str", "dict"} THEN doc.text
                                                     ELSE "unknown"
              name == Prefix \o key \o Suffix
          IN  /\ name \in DOMAIN store'
              /\ store'[name] = doc
              /\ DOMAIN store' = DOMAIN store \cup {name}
              /\ \A other \in DOMAIN store \ {name} : store'[other] = store[other]
              /\ save_report_contents(store', doc) = store'
              /\ save_report(files', doc) = files'
              /\ key \in get_existing_report_ids(files')]_vars

\* A document with a decorated identifier has replaced the other version
\* stored under its key, next to two other files.
C21_Witness ==
    /\ last_saved = [kind |-> "dict", text |-> "2", version |-> "b"]
    /\ store[FileName("2")] = last_saved
    /\ Cardinality(DOMAIN store) = 3

\* --------------------------------------------- the remote search by date
\* Times at which the remote last modified a record: just before the first
\* run can start, and after it.
ModifiedTimes == {StartClock - 1, StartClock + 1}

\* findUserLandingReports_001 with date_modified_start: the records modified
\* at or after the boundary, all records when the boundary is empty.
matches(id, boundary, now) ==
    /\ modified[id] <= now
    /\ boundary.tag = "stamp" => boundary.t <= modified[id]

InitRemote ==
    /\ InitSync
    /\ root = NoElement
    /\ normalized = NotNormalized
    /\ store = EmptyStore
    /\ last_saved = NoDocument
    /\ modified \in [Ids -> ModifiedTimes]
    /\ found_ever = {}
    /\ db = EmptyDb
    /\ saving = NotSaving

\* The search response lists the records the remote selects for the
\* boundary, each once or more.
SearchRemote(stubs) ==
    /\ pc = "search"
    /\ {stubs[k].text : k \in 1..Len(stubs)} =
           {id \in Ids : matches(id, date_modified_start, clock)}
    /\ found_ever' = found_ever \cup {stubs[k].text : k \in 1..Len(stubs)}
    /\ summaries' = stubs
    /\ existing_ids' = IF skip_existing THEN get_existing_report_ids(files)
                                        ELSE {}
    /\ synced' = <<>>
    /\ skipped' = <<>>
    /\ errors' = <<>>
    /\ i' = 1
    /\ pc' = "loop"
    /\ UNCHANGED <<clock, state_file, files, exc, args, state,
                   date_modified_start, sync_start, result, fetch_calls, pre,
                   last_start, root, normalized, progress, store, last_saved,
                   modified, db, saving>>

NextRemote ==
    \/ Tick
    \/ \E fr \in BOOLEAN, sn \in SinceValues, se \in BOOLEAN, cb \in BOOLEAN :
           Call(fr, sn, se, cb)
    \/ CaptureStart
    \/ \E where \in {"search", "parse_summary"} : SearchRaises(where)
    \/ SearchEmpty
    \/ \E stubs \in SeqsUpTo(SearchStubs, MaxStubs) : SearchRemote(stubs)
    \/ Skip
    \/ CallbackRaises
    \/ FetchOk
    \/ FetchEmpty
    \/ FetchRaises
    \/ SaveRaises
    \/ Finalize
    \/ Done

SpecRemote == InitRemote /\ [][NextRemote]_vars

\* Records a search has found and no run has synced or stored.
Unstored ==
    found_ever \ (get_existing_report_ids(files) \cup state_file.synced_reports)

\* C30: a record that a search has found and that no run has stored is
\* found again by the search of the next run made with no since and no full
\* refresh, also after a run that failed to fetch it and advanced the
\* watermark, so that it is fetched again.
C30_UnstoredFoundAgain ==
    [][(pc = "search" /\ pc' = "loop" /\ DefaultRun) =>
           Unstored \subseteq {summaries'[k].text : k \in 1..Len(summaries')}]_vars

\* ------------------------------------------- SupabaseStorage.save_report
\* The parts of a parsed report save_report reads: landing_report_id (a
\* string, decorated, or absent), line_item and header.stat_area_worksheet
\* (absent, one mapping, a list of mappings, or a bare string).
Collections(members, lists) ==
    {[kind |-> "absent", v |-> <<>>], [kind |-> "str", v |-> <<>>]}
        \cup {[kind |-> "dict", v |-> <<m>>] : m \in members}
        \cup {[kind |-> "list", v |-> q] : q \in lists}
Reports ==
    {[landing_report_id |-> f, line_item |-> li, stat_area_worksheet |-> sa] :
         f \in {[kind |-> "str", text |-> "1"], [kind |-> "dict", text |-> "1"],
                [kind |-> "absent", text |-> ""]},
         li \in Collections({"1"}, {<<"1", "2">>}),
         sa \in {c \in Collections({"1"}, {}) : c.kind # "str"}}

\* int() of a string of digits.
int(s) == CHOOSE n \in 0..9 : ToString(n) = s

\* int(report.get("landing_report_id", 0)) returns a number.
has_int_id(report) == report.landing_report_id.kind \in {"str", "absent"}
int_report_id(report) ==
    IF report.landing_report_id.kind = "absent" THEN 0
    ELSE int(report.landing_report_id.text)

\* The loop over a collection can be run: a bare string has no .get.
is_extractable(c) == c.kind # "str"

\* The rows of _extract_line_items and _extract_stat_areas, reduced to the
\* parent identifier and the item number.
extract_rows(report, c) ==
    [k \in 1..Len(c.v) |->
         [landing_report_id |-> int_report_id(report),
          item_number |-> int(c.v[k])]]

\* .eq("landing_report_id", report_id) on the rows of a table.
RECURSIVE rows_eq(_, _)
rows_eq(table, rid) ==
    IF table = <<>> THEN <<>>
    ELSE IF Head(table).landing_report_id = rid
         THEN <<Head(table)>> \o rows_eq(Tail(table), rid)
         ELSE rows_eq(Tail(table), rid)

\* .delete().eq("landing_report_id", report_id)
RECURSIVE delete_eq(_, _)
delete_eq(table, rid) ==
    IF table = <<>> THEN <<>>
    ELSE IF Head(table).landing_report_id = rid
         THEN delete_eq(Tail(table), rid)
         ELSE <<Head(table)>> \o delete_eq(Tail(table), rid)

InitDb ==
    /\ InitSync
    /\ root = NoElement
    /\ normalized = NotNormalized
    /\ InitOthers

sync_vars == <<clock, state_file, files, pc, exc, args, locals, result,
               fetch_calls, pre, last_start, root, normalized, progress,
               store, last_saved, modified, found_ever>>

\* save_report(report) is called; int(report.get("landing_report_id", 0))
\* raises for a decorated identifier and save_report returns False.
SaveCall(report) ==
    /\ saving.pc = "idle"
    /\ saving' = IF has_int_id(report)
                 THEN [pc |-> "upsert", report |-> report, ret |-> "none"]
                 ELSE [pc |-> "idle", report |-> report, ret |-> "False"]
    /\ UNCHANGED <<db, sync_vars>>

\* table("landing_reports").upsert(flat_report).execute()
Upsert ==
    /\ saving.pc = "upsert"
    /\ db' = [db EXCEPT !.landing_reports =
                  (int_report_id(saving.report) :> saving.report) @@ @]
    /\ saving' = [saving EXCEPT !.pc = "delete_items"]
    /\ UNCHANGED sync_vars

\* The deletion of the line items left out.
DeleteItemsSkipped ==
    /\ saving.pc = "delete_items"
    /\ saving' = [saving EXCEPT !.pc = "delete_areas"]
    /\ UNCHANGED <<db, sync_vars>>

\* table("landing_report_items").delete().eq(...).execute()
DeleteItems ==
    /\ saving.pc = "delete_items"
    /\ db' = [db EXCEPT !.landing_report_items =
                  delete_eq(@, int_report_id(saving.report))]
    /\ saving' = [saving EXCEPT !.pc = "delete_areas"]
    /\ UNCHANGED sync_vars

\* table("landing_report_stat_areas").delete().eq(...).execute()
DeleteAreas ==
    /\ saving.pc = "delete_areas"
    /\ db' = [db EXCEPT !.landing_report_stat_areas =
                  delete_eq(@, int_report_id(saving.report))]
    /\ saving' = [saving EXCEPT !.pc = "insert_items"]
    /\ UNCHANGED sync_vars

\* _extract_line_items and the insert of its rows when there are any.
InsertItems ==
    /\ saving.pc = "insert_items"
    /\ is_extractable(saving.report.line_item)
    /\ db' = [db EXCEPT !.landing_report_items =
                  @ \o extract_rows(saving.report, saving.report.line_item)]
    /\ saving' = [saving EXCEPT !.pc = "insert_areas"]
    /\ UNCHANGED sync_vars

\* _extract_stat_areas, the insert of its rows when there are any, and
\* return True.
InsertAreas ==
    /\ saving.pc = "insert_areas"
    /\ is_extractable(saving.report.stat_area_worksheet)
    /\ db' = [db EXCEPT !.landing_report_stat_areas =
                  @ \o extract_rows(saving.report,
                                    saving.report.stat_area_worksheet)]
    /\ saving' = [saving EXCEPT !.pc = "idle", !.ret = "True"]
    /\ UNCHANGED sync_vars

\* The collection the step is about, "none" for the steps without one.
collection_at(step, report) ==
    CASE step = "insert_items" -> report.line_item
      [] step = "insert_areas" -> report.stat_area_worksheet
      [] OTHER -> [kind |-> "none", v |-> <<>>]

\* A call of the client or an extraction raises: the except clause of
\* save_report returns False.  An insert is not called for zero rows.
SaveFails ==
    /\ saving.pc \in {"upsert", "delete_items", "delete_areas",
                      "insert_items", "insert_areas"}
    /\ collection_at(saving.pc, saving.report).kind # "absent"
    /\ saving' = [saving EXCEPT !.pc = "idle", !.ret = "False"]
    /\ UNCHANGED <<db, sync_vars>>

NextDb ==
    \/ \E report \in Reports : SaveCall(report)
    \/ Upsert
    \/ DeleteItems
    \/ DeleteAreas
    \/ InsertItems
    \/ InsertAreas
    \/ SaveFails

SpecDb == InitDb /\ [][NextDb]_vars

\* save_report has returned True for saving.report.
Saved == saving.pc = "idle" /\ saving.ret = "True"

\* The item numbers a collection of the document holds, as numbers.
NumbersOf(c) ==
    CASE c.kind = "dict" -> <<int(c.v[1])>>
      [] c.kind = "list" -> [k \in 1..Len(c.v) |-> int(c.v[k])]
      [] OTHER -> <<>>

\* The rows of the table for rid are those of the collection c, in order,
\* each with rid as its parent.
HoldsExactly(table, rid, c) ==
    LET rows == rows_eq(table, rid)
    IN  /\ Len(rows) = Len(NumbersOf(c))
        /\ \A k \in 1..Len(rows) :
               /\ rows[k].landing_report_id = rid
               /\ rows[k].item_number = NumbersOf(c)[k]

ParentUpserted ==
    /\ int_report_id(saving.report) \in DOMAIN db.landing_reports
    /\ db.landing_reports[int_report_id(saving.report)] = saving.report

\* C28: after save_report(document) has succeeded the line item rows and
\* the stat area rows stored for the report identifier are exactly the rows
\* of that document, each with the parent's identifier, whatever an earlier
\* version had; the rows of other reports are untouched; the parent is
\* upserted before the children are deleted, and they are deleted before
\* they are inserted.
C28_ChildrenReplaced ==
    /\ [](Saved =>
              LET rid == int_report_id(saving.report)
              IN  /\ ParentUpserted
                  /\ HoldsExactly(db.landing_report_items, rid,
                                  saving.report.line_item)
                  /\ HoldsExactly(db.landing_report_stat_areas, rid,
                                  saving.report.stat_area_worksheet))
    /\ [][(db.landing_report_items' # db.landing_report_items
              \/ db.landing_report_stat_areas' # db.landing_report_stat_areas)
          => /\ ParentUpserted
             /\ \A other \in {0, 1, 2} \ {int_report_id(saving.report)} :
                    /\ rows_eq(db.landing_report_items', other) =
                           rows_eq(db.landing_report_items, other)
                    /\ rows_eq(db.landing_report_stat_areas', other) =
                           rows_eq(db.landing_report_stat_areas, other)]_vars
    /\ [][Len(db.landing_report_items') > Len(db.landing_report_items)
          => rows_eq(db.landing_report_items,
                     int_report_id(saving.report)) = <<>>]_vars

\* Report 1 saved with one line item while the rows of another report are
\* in the table before it: the two rows of an earlier save of report 1 came
\* first and are gone.
C28_Witness ==
    /\ Saved
    /\ saving.report.landing_report_id.kind = "str"
    /\ saving.report.line_item.kind = "dict"
    /\ Len(db.landing_report_items) = 3
    /\ db.landing_report_items[1].landing_report_id = 0
    /\ db.landing_report_items[3].landing_report_id = 1

====
